---- MODULE Spec2Model ----
(***************************************************************************)
(* Utilities of nspanel_easy (components/nspanel_easy): the text functions *)
(* wrapText, adjustDecimalSeparator, isStringInList and decode_utf8        *)
(* (text.cpp), the hardware settings byte (hardware.h),                    *)
(* extractHomeAssistantEntity (ha_components.cpp) and the utilities groups *)
(* table (page_utilities.cpp), each modelled as calls whose arguments are  *)
(* drawn from bounded sets.                                                *)
(*                                                                         *)
(* A std::string is a sequence of one-character strings; C++ offsets are   *)
(* 0-based, so text[i] in the code is At(text, i) here.  A C string        *)
(* (const char* ) is a sequence of non-zero byte values, the terminating   *)
(* NUL being the byte read at offset Len.                                  *)
(***************************************************************************)
EXTENDS Integers, Sequences, FiniteSets, TLC

VARIABLES
    \* wrapText
    text_to_display, line_length_limit, bytes_per_char,
    wrap_pc, wrap_path, start, wrapped_text, wrap_result,
    \* the offsets of text_to_display read by the last loop iteration, and the
    \* slice <<start, end>> it appended (<<>> when it appended none)
    wrap_reads, wrap_slice,
    \* the loop iterations wrapText has begun, and the segments it has
    \* appended, one after the other
    wrap_iterations, wrap_segments,
    \* adjustDecimalSeparator
    input, decimalSeparator, adjust_pc, adjust_path, adjust_result,
    \* decode_utf8
    bytes, decode_pc, code_point, decode_reads,
    \* isStringInList
    strToSearch, list, inlist_it, inlist_pc, inlist_result,
    \* the process: the radix character of its numeric locale, and the calls
    \* of adjustDecimalSeparator it has made with the same arguments
    locale_radix, adjust_calls, adjust_previous,
    \* the caller of wrapText: the calls it has made, and the text and the
    \* result of the call before the present one
    wrap_calls, wrap_previous,
    \* hardware settings: the byte hardware_settings_raw, the argument of the
    \* last set_hardware_settings, the struct get_hardware_settings has
    \* returned for the present byte (a default-constructed one when it has
    \* not been called since the byte was written), and the calls made last
    hardware_settings_raw, hw_written, hw_read, hw_calls,
    \* extractHomeAssistantEntity
    entity_id, entity_pc, result,
    \* the table UtilitiesGroups; findUtilitiesGroupIndex: its argument, its
    \* locals, the loop iterations it has run and its return value
    UtilitiesGroups, group_id, low, high, find_pc, find_iterations, find_result

wrap_vars == <<text_to_display, line_length_limit, bytes_per_char,
               wrap_pc, wrap_path, start, wrapped_text, wrap_result,
               wrap_reads, wrap_slice, wrap_iterations, wrap_segments>>
adjust_vars == <<input, decimalSeparator, adjust_pc, adjust_path, adjust_result>>
decode_vars == <<bytes, decode_pc, code_point, decode_reads>>
inlist_vars == <<strToSearch, list, inlist_it, inlist_pc, inlist_result>>
process_vars == <<locale_radix, adjust_calls, adjust_previous,
                  wrap_calls, wrap_previous>>
hw_vars == <<hardware_settings_raw, hw_written, hw_read, hw_calls>>
entity_vars == <<entity_id, entity_pc, result>>
groups_vars == <<UtilitiesGroups, group_id, low, high, find_pc,
                 find_iterations, find_result>>
vars == <<wrap_vars, adjust_vars, decode_vars, inlist_vars, process_vars,
          hw_vars, entity_vars, groups_vars>>

\* what a call of one function leaves alone: the state of the others
wrap_frame ==
    <<adjust_vars, decode_vars, inlist_vars, process_vars,
      hw_vars, entity_vars, groups_vars>>
adjust_frame ==
    <<wrap_vars, decode_vars, inlist_vars, process_vars,
      hw_vars, entity_vars, groups_vars>>
decode_frame ==
    <<wrap_vars, adjust_vars, inlist_vars, process_vars,
      hw_vars, entity_vars, groups_vars>>
inlist_frame ==
    <<wrap_vars, adjust_vars, decode_vars, process_vars,
      hw_vars, entity_vars, groups_vars>>
process_frame ==
    <<wrap_vars, decode_vars, inlist_vars, hw_vars,
      entity_vars, groups_vars>>
hw_frame ==
    <<wrap_vars, adjust_vars, decode_vars, inlist_vars,
      process_vars, entity_vars, groups_vars>>
entity_frame ==
    <<wrap_vars, adjust_vars, decode_vars, inlist_vars,
      process_vars, hw_vars, groups_vars>>
\* what the caller of wrapText leaves alone besides the numeric locale
wrap_frame_of_caller ==
    <<adjust_vars, decode_vars, inlist_vars, hw_vars, entity_vars, groups_vars>>
groups_frame ==
    <<wrap_vars, adjust_vars, decode_vars, inlist_vars,
      process_vars, hw_vars, entity_vars>>

(***************************************************************************)
(* Bounds of the model and constants of the program.                       *)
(***************************************************************************)
\* longest text enumerated in full over TextAlphabet
MaxLen == 6
\* line_length_limit is drawn from 0..MaxL and UInt8Max
MaxL == 3
\* bytes_per_char is drawn from 0..MaxB and UInt8Max
MaxB == 2
\* longest input of adjustDecimalSeparator, enumerated over InputAlphabet
MaxInputLen == 5
\* most bytes of an input of decode_utf8 after the sequence its first byte
\* announces
MaxExtra == 1
\* most elements of the list given to isStringInList
MaxListLen == 2
\* most calls of adjustDecimalSeparator made with the same arguments
MaxCalls == 2
\* longest entity_id, and longest text after "alarm_control_panel" in one,
\* enumerated over EntityAlphabet
MaxEntityLen == 4
\* the guard of wrapText: text_to_display.length() > 1000
MaxTextLen == 1000
\* largest value of a uint8_t parameter
UInt8Max == 255
\* uint16_t arithmetic is modulo 2^16
UInt16Mod == 65536

(***************************************************************************)
(* Strings.                                                                *)
(***************************************************************************)
At(s, i) == s[i + 1]

\* s.substr(pos, n): n is clamped to the end of s
\* Substr that leaves out the last of the n bytes
Substr_DropLast(s, pos, n) ==
    SubSeq(s, pos + 1, IF pos + n > Len(s) THEN Len(s) - 1 ELSE pos + n - 1)

Substr(s, pos, n) ==
    SubSeq(s, pos + 1, IF pos + n > Len(s) THEN Len(s) ELSE pos + n)

Fill(c, n) == [i \in 1..n |-> c]

\* s.find(tok) != npos, for a non-empty tok
Contains(s, tok) ==
    \E i \in 0..(Len(s) - Len(tok)) : SubSeq(s, i + 1, i + Len(tok)) = tok

\* every sequence over S of length at most n
SeqsUpTo(S, n) == UNION {[1..k -> S] : k \in 0..n}

BreakToken == <<"\\", "r">>
ErrorTooLong ==
    <<"E", "R", "R", "O", "R", ":", " ", "T", "e", "x", "t", " ",
      "t", "o", "o", " ", "l", "o", "n", "g">>
ErrorInvalidLength ==
    <<"E", "R", "R", "O", "R", ":", " ", "I", "n", "v", "a", "l", "i", "d", " ",
      "l", "i", "n", "e", " ", "l", "e", "n", "g", "t", "h">>

(***************************************************************************)
(* wrapText                                                                *)
(***************************************************************************)
TextAlphabet == {" ", "a", "\\", "r"}
ShortTexts == SeqsUpTo(TextAlphabet, MaxLen)

\* texts at the 1000-byte guard: a run of one character followed by a tail
LongTails == {<<>>, BreakToken, ErrorTooLong, <<"a", " ">>}
LongTexts ==
    {Fill(c, n - Len(t)) \o t :
        c \in {" ", "a"}, t \in LongTails, n \in {MaxTextLen, MaxTextLen + 1}}

LineLimits == 0..MaxL \cup {UInt8Max}
BytesPerChar == 0..MaxB \cup {UInt8Max}

\* SkipSpaces with an if for the while: at most one space is skipped
SkipSpaces_One(text, text_len, i) ==
    IF i < text_len /\ At(text, i) = " " THEN i + 1 ELSE i

\* SkipSpaces with the loop left out
SkipSpaces_None(text, text_len, i) == i

\* while (i < text_len && text[i] == ' ') ++i;
\* the loop stops at the least offset from i on that is the end of the text or
\* holds no space
SkipSpaces(text, text_len, i) ==
    IF ~(i < text_len) THEN i
    ELSE CHOOSE j \in i..text_len :
            /\ j = text_len \/ At(text, j) # " "
            /\ \A k \in i..(j - 1) : At(text, k) = " "

\* FindWordEnd that finds no space: the search runs down to from
FindWordEnd_None(text, from, word_end) ==
    IF ~(word_end > from) THEN word_end ELSE from

\* while (word_end > start && text[word_end] != ' ') --word_end;
\* the loop stops at the greatest offset down from word_end that is from or
\* holds a space
FindWordEnd(text, from, word_end) ==
    IF ~(word_end > from) THEN word_end
    ELSE CHOOSE w \in from..word_end :
            /\ w = from \/ At(text, w) = " "
            /\ \A k \in (w + 1)..word_end : At(text, k) # " "

\* the offsets read by the loop SkipSpaces(text, text_len, i): text[k] is
\* read for each k from i on for which k < text_len held, up to the one that
\* stopped the loop
SkipSpacesReads(text, text_len, i) ==
    {k \in i..SkipSpaces(text, text_len, i) : k < text_len}

\* the offsets read by the loop FindWordEnd(text, from, word_end): text[k] is
\* read for each k from word_end down for which k > from held, down to the
\* one that stopped the loop
FindWordEndReads(text, from, word_end) ==
    {k \in FindWordEnd(text, from, word_end)..word_end : k > from}

\* const uint16_t max_line_length = line_length_limit * bytes_per_char;
MaxLineLength(L, B) == (L * B) % UInt16Mod

\* const uint16_t text_len = static_cast<uint16_t>(text_to_display.length());
TextLen(text) == Len(text) % UInt16Mod

\* LineEnd with the cutoff one byte too far
LineEnd_OffByOne(text, text_len, max_line_length, from) ==
    LET end == (from + max_line_length + 1) % UInt16Mod IN
    IF end >= text_len THEN text_len
    ELSE LET word_end == FindWordEnd(text, from, end) IN
         IF word_end > from THEN word_end ELSE end

\* LineEnd with the word boundary taken even when none was found
LineEnd_NoHardBreak(text, text_len, max_line_length, from) ==
    LET end == (from + max_line_length) % UInt16Mod IN
    IF end >= text_len THEN text_len
    ELSE FindWordEnd(text, from, end)

\* the end of the line that begins at from (lines 93-108)
LineEnd(text, text_len, max_line_length, from) ==
    LET end == (from + max_line_length) % UInt16Mod IN
    IF end >= text_len THEN text_len
    ELSE LET word_end == FindWordEnd(text, from, end) IN
         IF word_end > from THEN word_end ELSE end

\* the offsets read while the end of the line is computed (lines 97-101)
LineEndReads(text, text_len, max_line_length, from) ==
    LET end == (from + max_line_length) % UInt16Mod IN
    IF end >= text_len THEN {}
    ELSE FindWordEndReads(text, from, end)

\* wrapped_text.reserve(text_len + 20): the capacity asked for
ReserveMargin == 20

Reserved(text_len) == text_len + ReserveMargin

\* TooLong with >= for >
TooLong_AtLimit(text) == Len(text) >= MaxTextLen

\* if (text_to_display.length() > 1000)
TooLong(text) == Len(text) > MaxTextLen

\* InvalidParams with bytes_per_char not tested
InvalidParams_LimitOnly(L, B) == L = 0

\* if (line_length_limit == 0 || bytes_per_char == 0)
InvalidParams(L, B) == L = 0 \/ B = 0

\* AlreadyFormatted with the test left out
AlreadyFormatted_Never(text) == FALSE

\* if (text_to_display.find("\\r") != std::string::npos)
AlreadyFormatted(text) == Contains(text, BreakToken)

\* ShortEnough with < for <=
ShortEnough_Strict(text_len, max_line_length) == text_len < max_line_length

\* if (text_len <= max_line_length)
ShortEnough(text_len, max_line_length) == text_len <= max_line_length

WrapInit ==
    /\ text_to_display \in ShortTexts \/ text_to_display \in LongTexts
    /\ line_length_limit \in LineLimits
    /\ bytes_per_char \in BytesPerChar
    /\ wrap_pc = "call"
    /\ wrap_path = "none"
    /\ start = 0
    /\ wrapped_text = <<>>
    /\ wrap_result = <<>>
    /\ wrap_reads = {}
    /\ wrap_slice = <<>>
    /\ wrap_iterations = 0
    /\ wrap_segments = <<>>

\* the guards of wrapText, up to the first test of the loop (lines 55-80)
WrapTooLongError ==
    /\ wrap_pc = "call"
    /\ TooLong(text_to_display)
    /\ wrap_pc' = "done"
    /\ wrap_path' = "too_long"
    /\ wrap_result' = ErrorTooLong
    /\ UNCHANGED <<text_to_display, line_length_limit, bytes_per_char,
                   start, wrapped_text, wrap_reads, wrap_slice,
                   wrap_iterations, wrap_segments, wrap_frame>>

WrapInvalidParams ==
    /\ wrap_pc = "call"
    /\ ~TooLong(text_to_display)
    /\ InvalidParams(line_length_limit, bytes_per_char)
    /\ wrap_pc' = "done"
    /\ wrap_path' = "invalid"
    /\ wrap_result' = ErrorInvalidLength
    /\ UNCHANGED <<text_to_display, line_length_limit, bytes_per_char,
                   start, wrapped_text, wrap_reads, wrap_slice,
                   wrap_iterations, wrap_segments, wrap_frame>>

WrapAlreadyFormatted ==
    /\ wrap_pc = "call"
    /\ ~TooLong(text_to_display)
    /\ ~InvalidParams(line_length_limit, bytes_per_char)
    /\ AlreadyFormatted(text_to_display)
    /\ wrap_pc' = "done"
    /\ wrap_path' = "formatted"
    /\ wrap_result' = text_to_display
    /\ UNCHANGED <<text_to_display, line_length_limit, bytes_per_char,
                   start, wrapped_text, wrap_reads, wrap_slice,
                   wrap_iterations, wrap_segments, wrap_frame>>

WrapShortEnough ==
    /\ wrap_pc = "call"
    /\ ~TooLong(text_to_display)
    /\ ~InvalidParams(line_length_limit, bytes_per_char)
    /\ ~AlreadyFormatted(text_to_display)
    /\ ShortEnough(TextLen(text_to_display),
                   MaxLineLength(line_length_limit, bytes_per_char))
    /\ wrap_pc' = "done"
    /\ wrap_path' = "short"
    /\ wrap_result' = text_to_display
    /\ UNCHANGED <<text_to_display, line_length_limit, bytes_per_char,
                   start, wrapped_text, wrap_reads, wrap_slice,
                   wrap_iterations, wrap_segments, wrap_frame>>

WrapEnterLoop ==
    /\ wrap_pc = "call"
    /\ ~TooLong(text_to_display)
    /\ ~InvalidParams(line_length_limit, bytes_per_char)
    /\ ~AlreadyFormatted(text_to_display)
    /\ ~ShortEnough(TextLen(text_to_display),
                    MaxLineLength(line_length_limit, bytes_per_char))
    /\ wrap_pc' = "loop"
    /\ start' = 0
    /\ wrapped_text' = <<>>
    /\ UNCHANGED <<text_to_display, line_length_limit, bytes_per_char,
                   wrap_path, wrap_result, wrap_reads, wrap_slice,
                   wrap_iterations, wrap_segments, wrap_frame>>

\* one iteration of while (start < text_len) (lines 82-124)
WrapIteration ==
    /\ wrap_pc = "loop"
    /\ start < TextLen(text_to_display)
    /\ wrap_iterations' = wrap_iterations + 1
    /\ LET text_len == TextLen(text_to_display)
           max_line_length == MaxLineLength(line_length_limit, bytes_per_char)
           from == SkipSpaces(text_to_display, text_len, start)
           skipped == SkipSpacesReads(text_to_display, text_len, start)
       IN IF from >= text_len
          THEN \* break: end of text reached
               /\ start' = from
               /\ wrapped_text' = wrapped_text
               /\ wrap_reads' = skipped
               /\ wrap_slice' = <<>>
               /\ wrap_segments' = wrap_segments
          ELSE LET end == LineEnd(text_to_display, text_len, max_line_length, from)
                   segment == Substr(text_to_display, from, end - from)
                   searched == LineEndReads(text_to_display, text_len,
                                            max_line_length, from)
               IN /\ wrap_slice' = <<from, end>>
                  /\ wrap_segments' = wrap_segments \o segment
                  /\ IF end < text_len
                     THEN /\ wrapped_text' = wrapped_text \o segment \o BreakToken
                          /\ start' = SkipSpaces(text_to_display, text_len, end)
                          /\ wrap_reads' =
                                skipped \cup searched \cup
                                SkipSpacesReads(text_to_display, text_len, end)
                     ELSE /\ wrapped_text' = wrapped_text \o segment
                          /\ start' = end
                          /\ wrap_reads' = skipped \cup searched
    /\ UNCHANGED <<text_to_display, line_length_limit, bytes_per_char,
                   wrap_pc, wrap_path, wrap_result, wrap_frame>>

\* return wrapped_text (line 126)
WrapReturn ==
    /\ wrap_pc = "loop"
    /\ ~(start < TextLen(text_to_display))
    /\ wrap_pc' = "done"
    /\ wrap_path' = "wrapped"
    /\ wrap_result' = wrapped_text
    /\ UNCHANGED <<text_to_display, line_length_limit, bytes_per_char,
                   start, wrapped_text, wrap_reads, wrap_slice,
                   wrap_iterations, wrap_segments, wrap_frame>>

(***************************************************************************)
(* adjustDecimalSeparator                                                  *)
(***************************************************************************)
InputAlphabet == {"1", ".", "-", ",", "C"}
Inputs == SeqsUpTo(InputAlphabet, MaxInputLen)
Separators == {".", ",", "-", "1", "C"}

Digits == {"0", "1", "2", "3", "4", "5", "6", "7", "8", "9"}

\* (c >= '0' && c <= '9') || c == '.' || c == '-' || c == ','
IsNumericChar(c) == c \in Digits \/ c = "." \/ c = "-" \/ c = ","

\* for (; numericEnd < input.size(); ++numericEnd) if (!numeric) break;
RECURSIVE NumericEnd(_, _)
NumericEnd(in, numericEnd) ==
    IF numericEnd < Len(in) /\ IsNumericChar(At(in, numericEnd))
    THEN NumericEnd(in, numericEnd + 1)
    ELSE numericEnd

\* the number of digits of s from offset i on
RECURSIVE DigitRun(_, _)
DigitRun(s, i) ==
    IF i < Len(s) /\ At(s, i) \in Digits THEN 1 + DigitRun(s, i + 1) ELSE 0

\* strtod(s, &end), as end - s: the length of the longest prefix of s that
\* is a number, 0 when there is none.  s holds numeric characters only, so
\* the number is an optional '-', then digits with an optional radix
\* character, at least one digit in all (no exponent, hex, inf or nan).
\* The radix character is that of the numeric locale of the process at the
\* time of the call: '.' in the "C" locale every process starts in.
Strtod(s) ==
    LET sign == IF Len(s) > 0 /\ At(s, 0) = "-" THEN 1 ELSE 0
        int_digits == DigitRun(s, sign)
        dot == sign + int_digits
        has_dot == dot < Len(s) /\ At(s, dot) = locale_radix
        frac_digits == IF has_dot THEN DigitRun(s, dot + 1) ELSE 0
    IN IF int_digits + frac_digits = 0 THEN 0
       ELSE IF has_dot THEN dot + 1 + frac_digits
       ELSE dot

\* ParsesFully with *end == '\0' not tested
ParsesFully_AnyPrefix(numericPart) == Strtod(numericPart) # 0

\* if (end != numericPart.c_str() && *end == '\0')
ParsesFully(numericPart) ==
    LET end == Strtod(numericPart) IN end # 0 /\ end = Len(numericPart)

Npos == -1

\* s.find(c)
Find(s, c) ==
    IF \E i \in 0..(Len(s) - 1) : At(s, i) = c
    THEN CHOOSE i \in 0..(Len(s) - 1) :
            At(s, i) = c /\ \A j \in 0..(i - 1) : At(s, j) # c
    ELSE Npos

\* Rewritten with the decimal point searched in the whole input
Rewritten_DotAnywhere(in, numericEnd, separator) ==
    LET decimalPointPos == Find(in, ".")
    IN IF decimalPointPos # Npos
       THEN [in EXCEPT ![decimalPointPos + 1] = separator]
       ELSE in

\* Rewritten with the suffix behind the numeric part left out
Rewritten_NoSuffix(in, numericEnd, separator) ==
    LET numericPart == Substr(in, 0, numericEnd)
        decimalPointPos == Find(numericPart, ".")
    IN IF decimalPointPos # Npos
       THEN [numericPart EXCEPT ![decimalPointPos + 1] = separator]
       ELSE numericPart

\* lines 36-46: the first '.' of the numeric part replaced, the suffix appended
Rewritten(in, numericEnd, separator) ==
    LET numericPart == Substr(in, 0, numericEnd)
        decimalPointPos == Find(numericPart, ".")
        replaced == IF decimalPointPos # Npos
                    THEN [numericPart EXCEPT ![decimalPointPos + 1] = separator]
                    ELSE numericPart
    IN IF numericEnd < Len(in)
       THEN replaced \o Substr(in, numericEnd, Len(in))
       ELSE replaced

AdjustInit ==
    /\ input \in Inputs
    /\ decimalSeparator \in Separators
    /\ adjust_pc = "call"
    /\ adjust_path = "none"
    /\ adjust_result = <<>>

\* if (decimalSeparator == '.') return input;
AdjustSeparatorIsDot ==
    /\ adjust_pc = "call"
    /\ decimalSeparator = "."
    /\ adjust_pc' = "done"
    /\ adjust_path' = "separator_is_dot"
    /\ adjust_result' = input
    /\ UNCHANGED <<input, decimalSeparator, adjust_frame>>

\* if (numericEnd == 0) return input;
AdjustNoNumericPart ==
    /\ adjust_pc = "call"
    /\ decimalSeparator # "."
    /\ NumericEnd(input, 0) = 0
    /\ adjust_pc' = "done"
    /\ adjust_path' = "no_numeric_part"
    /\ adjust_result' = input
    /\ UNCHANGED <<input, decimalSeparator, adjust_frame>>

\* the numeric part is a number: return the rewritten string (lines 35-47)
AdjustRewrite ==
    /\ adjust_pc = "call"
    /\ decimalSeparator # "."
    /\ NumericEnd(input, 0) # 0
    /\ ParsesFully(Substr(input, 0, NumericEnd(input, 0)))
    /\ adjust_pc' = "done"
    /\ adjust_path' = "rewritten"
    /\ adjust_result' = Rewritten(input, NumericEnd(input, 0), decimalSeparator)
    /\ UNCHANGED <<input, decimalSeparator, adjust_frame>>

\* the numeric part is not a number: return input (line 49)
AdjustNotANumber ==
    /\ adjust_pc = "call"
    /\ decimalSeparator # "."
    /\ NumericEnd(input, 0) # 0
    /\ ~ParsesFully(Substr(input, 0, NumericEnd(input, 0)))
    /\ adjust_pc' = "done"
    /\ adjust_path' = "not_a_number"
    /\ adjust_result' = input
    /\ UNCHANGED <<input, decimalSeparator, adjust_frame>>

(***************************************************************************)
(* decode_utf8                                                             *)
(***************************************************************************)
\* a const char*: the null pointer, or a string of non-zero bytes that a NUL
\* terminates
NullPtr == [null |-> TRUE, chars |-> <<>>]
CString(chars) == [null |-> FALSE, chars |-> chars]

\* first bytes at the edges of the lead-byte classes
LeadBytes ==
    {\h01, \h41, \h7F, \h80, \hBF, \hC0, \hC1, \hC2, \hDF, \hE0, \hE1,
     \hED, \hEF, \hF0, \hF4, \hF7, \hF8, \hFF}
\* following bytes at the edges of the continuation class 10xxxxxx
TailBytes == {\h7F, \h80, \h8D, \h8F, \h90, \h9F, \hA0, \hBF, \hC0}

\* the number of bytes a lead byte announces, 0 for a byte that is no lead
AnnouncedLength(lead) ==
    IF lead <= \h7F THEN 1
    ELSE IF lead >= \hC0 /\ lead <= \hDF THEN 2
    ELSE IF lead >= \hE0 /\ lead <= \hEF THEN 3
    ELSE IF lead >= \hF0 /\ lead <= \hF7 THEN 4
    ELSE 0

\* the bytes that may follow the first byte lead: at most the continuation
\* bytes it announces and MaxExtra further bytes
Tails(lead) ==
    SeqsUpTo(TailBytes, IF AnnouncedLength(lead) = 0 THEN MaxExtra
                        ELSE AnnouncedLength(lead) - 1 + MaxExtra)

\* bytes[k]: offset Len is the terminating NUL, past it lies no byte of the
\* string
ByteAt(b, k) ==
    IF k < Len(b.chars) THEN b.chars[k + 1]
    ELSE IF k = Len(b.chars) THEN 0
    ELSE "out of bounds"

RECURSIVE BitAnd(_, _)
BitAnd(a, b) ==
    IF a = 0 \/ b = 0 THEN 0
    ELSE (a % 2) * (b % 2) + 2 * BitAnd(a \div 2, b \div 2)

RECURSIVE BitOr(_, _)
BitOr(a, b) ==
    IF a = 0 THEN b
    ELSE IF b = 0 THEN a
    ELSE (IF a % 2 = 1 \/ b % 2 = 1 THEN 1 ELSE 0)
            + 2 * BitOr(a \div 2, b \div 2)

\* a << n; the operands here stay below 2^21, within the 32 bits of the code
Shl(a, n) == a * 2 ^ n

\* IsContinuation with the mask 0x80 for 0xC0
IsContinuation_HighBitOnly(b) == BitAnd(b, \h80) = \h80

\* (b & 0xC0) == 0x80
IsContinuation(b) == BitAnd(b, \hC0) = \h80

\* lines 143-147
TwoByteValue(byte, b1) ==
    IF ~IsContinuation(b1) THEN 0
    ELSE LET cp == BitOr(Shl(BitAnd(byte, \h1F), 6), BitAnd(b1, \h3F))
         IN IF cp < \h80 THEN 0 ELSE cp

\* ThreeByteValue with the surrogate range not rejected
ThreeByteValue_SurrogatesKept(byte, b1, b2) ==
    IF ~IsContinuation(b1) \/ ~IsContinuation(b2) THEN 0
    ELSE LET cp == BitOr(BitOr(Shl(BitAnd(byte, \h0F), 12),
                               Shl(BitAnd(b1, \h3F), 6)),
                         BitAnd(b2, \h3F))
         IN IF cp < \h800 THEN 0 ELSE cp

\* lines 149-156
ThreeByteValue(byte, b1, b2) ==
    IF ~IsContinuation(b1) \/ ~IsContinuation(b2) THEN 0
    ELSE LET cp == BitOr(BitOr(Shl(BitAnd(byte, \h0F), 12),
                               Shl(BitAnd(b1, \h3F), 6)),
                         BitAnd(b2, \h3F))
         IN IF cp < \h800 \/ (cp >= \hD800 /\ cp <= \hDFFF) THEN 0 ELSE cp

\* FourByteValue with the lead byte masked by 0x03 for 0x07
FourByteValue_NarrowLeadMask(byte, b1, b2, b3) ==
    IF ~IsContinuation(b1) \/ ~IsContinuation(b2) \/ ~IsContinuation(b3) THEN 0
    ELSE BitOr(BitOr(BitOr(Shl(BitAnd(byte, \h03), 18),
                           Shl(BitAnd(b1, \h3F), 12)),
                     Shl(BitAnd(b2, \h3F), 6)),
               BitAnd(b3, \h3F))

\* FourByteValue with values above 0x10FFFF rejected
FourByteValue_Bounded(byte, b1, b2, b3) ==
    IF ~IsContinuation(b1) \/ ~IsContinuation(b2) \/ ~IsContinuation(b3) THEN 0
    ELSE LET cp == BitOr(BitOr(BitOr(Shl(BitAnd(byte, \h07), 18),
                                     Shl(BitAnd(b1, \h3F), 12)),
                               Shl(BitAnd(b2, \h3F), 6)),
                         BitAnd(b3, \h3F))
         IN IF cp > \h10FFFF THEN 0 ELSE cp

\* lines 158-165
FourByteValue(byte, b1, b2, b3) ==
    IF ~IsContinuation(b1) \/ ~IsContinuation(b2) \/ ~IsContinuation(b3) THEN 0
    ELSE BitOr(BitOr(BitOr(Shl(BitAnd(byte, \h07), 18),
                           Shl(BitAnd(b1, \h3F), 12)),
                     Shl(BitAnd(b2, \h3F), 6)),
               BitAnd(b3, \h3F))

\* the conditions of the if / else-if chain (lines 135, 140, 142, 148, 157);
\* && reads its right operand only when the left one holds
IsNullOrEmpty(b) == b.null \/ ByteAt(b, 0) = 0
IsOneByte(b) == BitAnd(ByteAt(b, 0), \h80) = \h00
IsTwoBytes(b) == BitAnd(ByteAt(b, 0), \hE0) = \hC0 /\ ByteAt(b, 1) # 0
IsThreeBytes(b) ==
    BitAnd(ByteAt(b, 0), \hF0) = \hE0 /\ ByteAt(b, 1) # 0 /\ ByteAt(b, 2) # 0
IsFourBytes(b) ==
    /\ BitAnd(ByteAt(b, 0), \hF8) = \hF0
    /\ ByteAt(b, 1) # 0 /\ ByteAt(b, 2) # 0 /\ ByteAt(b, 3) # 0

\* the offsets read by a chain bytes[k] != '\0' && ... && bytes[n - 1] != '\0',
\* every offset read: && evaluates its right operand only when the left holds
ReadsWhileNonZero_All(b, k, n) == k..(n - 1)

RECURSIVE ReadsWhileNonZero(_, _, _)
ReadsWhileNonZero(b, k, n) ==
    IF k >= n THEN {}
    ELSE {k} \cup (IF ByteAt(b, k) # 0 THEN ReadsWhileNonZero(b, k + 1, n)
                                      ELSE {})

\* the offsets of bytes that one call reads: bytes[0] unless the pointer is
\* null, then the continuation bytes tested by the branch of the first byte
DecodeReads(b) ==
    IF b.null THEN {}
    ELSE IF ByteAt(b, 0) = 0 THEN {0}
    ELSE {0} \cup
         (IF BitAnd(ByteAt(b, 0), \h80) = \h00 THEN {}
          ELSE IF BitAnd(ByteAt(b, 0), \hE0) = \hC0
               THEN ReadsWhileNonZero(b, 1, 2)
          ELSE IF BitAnd(ByteAt(b, 0), \hF0) = \hE0
               THEN ReadsWhileNonZero(b, 1, 3)
          ELSE IF BitAnd(ByteAt(b, 0), \hF8) = \hF0
               THEN ReadsWhileNonZero(b, 1, 4)
          ELSE {})

DecodeInit ==
    /\ \/ bytes = NullPtr
       \/ bytes = CString(<<>>)
       \/ \E lead \in LeadBytes : \E tail \in Tails(lead) :
             bytes = CString(<<lead>> \o tail)
    /\ decode_pc = "call"
    /\ code_point = 0
    /\ decode_reads = {}

\* if (!bytes || bytes[0] == '\0') return 0;
DecodeNullOrEmpty ==
    /\ decode_pc = "call"
    /\ IsNullOrEmpty(bytes)
    /\ decode_pc' = "done"
    /\ code_point' = 0
    /\ decode_reads' = DecodeReads(bytes)
    /\ UNCHANGED <<bytes, decode_frame>>

DecodeOneByte ==
    /\ decode_pc = "call"
    /\ ~IsNullOrEmpty(bytes)
    /\ IsOneByte(bytes)
    /\ decode_pc' = "done"
    /\ code_point' = ByteAt(bytes, 0)
    /\ decode_reads' = DecodeReads(bytes)
    /\ UNCHANGED <<bytes, decode_frame>>

DecodeTwoBytes ==
    /\ decode_pc = "call"
    /\ ~IsNullOrEmpty(bytes)
    /\ ~IsOneByte(bytes)
    /\ IsTwoBytes(bytes)
    /\ decode_pc' = "done"
    /\ code_point' = TwoByteValue(ByteAt(bytes, 0), ByteAt(bytes, 1))
    /\ decode_reads' = DecodeReads(bytes)
    /\ UNCHANGED <<bytes, decode_frame>>

DecodeThreeBytes ==
    /\ decode_pc = "call"
    /\ ~IsNullOrEmpty(bytes)
    /\ ~IsOneByte(bytes)
    /\ ~IsTwoBytes(bytes)
    /\ IsThreeBytes(bytes)
    /\ decode_pc' = "done"
    /\ code_point' =
         ThreeByteValue(ByteAt(bytes, 0), ByteAt(bytes, 1), ByteAt(bytes, 2))
    /\ decode_reads' = DecodeReads(bytes)
    /\ UNCHANGED <<bytes, decode_frame>>

DecodeFourBytes ==
    /\ decode_pc = "call"
    /\ ~IsNullOrEmpty(bytes)
    /\ ~IsOneByte(bytes)
    /\ ~IsTwoBytes(bytes)
    /\ ~IsThreeBytes(bytes)
    /\ IsFourBytes(bytes)
    /\ decode_pc' = "done"
    /\ code_point' =
         FourByteValue(ByteAt(bytes, 0), ByteAt(bytes, 1), ByteAt(bytes, 2),
                       ByteAt(bytes, 3))
    /\ decode_reads' = DecodeReads(bytes)
    /\ UNCHANGED <<bytes, decode_frame>>

\* else code_point = 0;
DecodeOtherwise ==
    /\ decode_pc = "call"
    /\ ~IsNullOrEmpty(bytes)
    /\ ~IsOneByte(bytes)
    /\ ~IsTwoBytes(bytes)
    /\ ~IsThreeBytes(bytes)
    /\ ~IsFourBytes(bytes)
    /\ decode_pc' = "done"
    /\ code_point' = 0
    /\ decode_reads' = DecodeReads(bytes)
    /\ UNCHANGED <<bytes, decode_frame>>

(***************************************************************************)
(* The lines of an output: the output split on the break token.  The token *)
(* cannot overlap itself, so its occurrences are disjoint and the lines    *)
(* are the stretches between them.                                         *)
(***************************************************************************)
TokenPositions(s) == {i \in 1..(Len(s) - 1) : s[i] = "\\" /\ s[i + 1] = "r"}

LineStarts(s) == {1} \cup {i + 2 : i \in TokenPositions(s)}

LineStop(s, b) ==
    LET after == {i \in TokenPositions(s) : i >= b} IN
    IF after = {} THEN Len(s) + 1
    ELSE CHOOSE i \in after : \A j \in after : i <= j

Lines(s) == {SubSeq(s, b, LineStop(s, b) - 1) : b \in LineStarts(s)}

HasSpace(s) == \E i \in 1..Len(s) : s[i] = " "

BeginsWithSpace(s) == Len(s) > 0 /\ s[1] = " "

WrapDone == wrap_pc = "done"

ValidParams == line_length_limit > 0 /\ bytes_per_char > 0

\* a line is within the bound, or is one word that itself exceeds the bound
LineWithinBound(line) ==
    \/ Len(line) <= line_length_limit * bytes_per_char
    \/ ~HasSpace(line)

(***************************************************************************)
(* Claims about wrapText, checked under SpecWrap.                          *)
(***************************************************************************)
\* C1 as stated: for any text of at most 1000 bytes and L, B > 0, every line
\* of the output is at most L*B bytes long unless it is a single word longer
\* than L*B.  It fails for a text that already holds the break token, which
\* is returned as it is.
C1_LengthBoundEveryPath ==
    (WrapDone /\ Len(text_to_display) <= MaxTextLen /\ ValidParams)
        => \A line \in Lines(wrap_result) : LineWithinBound(line)

\* C1 amended: for any text of at most 1000 bytes that does not contain the
\* break token and L, B > 0, every line of the output is at most L*B bytes
\* long unless it is a single word longer than L*B.
C1_LengthBound ==
    (WrapDone /\ Len(text_to_display) <= MaxTextLen /\ ValidParams
        /\ ~Contains(text_to_display, BreakToken))
        => \A line \in Lines(wrap_result) : LineWithinBound(line)

\* C1 witness: a wrapped output of several lines, one of them filled to L*B
\* bytes and holding a space.
C1_Witness ==
    /\ WrapDone /\ wrap_path = "wrapped"
    /\ Cardinality(TokenPositions(wrap_result)) >= 2
    /\ \E line \in Lines(wrap_result) :
          Len(line) = line_length_limit * bytes_per_char /\ HasSpace(line)

\* C2 as stated: on every return path, no line of the output begins with a
\* space.  It fails on the paths that return the text unchanged.
C2_NoLeadingSpaceEveryPath ==
    (WrapDone /\ ValidParams)
        => \A line \in Lines(wrap_result) : ~BeginsWithSpace(line)

\* C2 amended: for a text of at most 1000 bytes that does not contain the
\* break token and is longer than L*B bytes (the wrapping path), with
\* L, B > 0, no line of the output begins with a space.
C2_NoLeadingSpace ==
    (WrapDone /\ ValidParams /\ Len(text_to_display) <= MaxTextLen
        /\ ~Contains(text_to_display, BreakToken)
        /\ Len(text_to_display) > line_length_limit * bytes_per_char)
        => \A line \in Lines(wrap_result) : ~BeginsWithSpace(line)

\* C2 witness: a text that begins with a space and holds a run of spaces at a
\* break has been wrapped into several lines.
C2_Witness ==
    /\ WrapDone /\ wrap_path = "wrapped"
    /\ BeginsWithSpace(text_to_display)
    /\ Contains(text_to_display, <<" ", " ">>)
    /\ TokenPositions(wrap_result) # {}

\* C3 as stated: a text that contains the break token is returned unchanged
\* for any L, B > 0, whatever its length.  It fails past 1000 bytes.
C3_PassthroughAnyLength ==
    (WrapDone /\ ValidParams /\ Contains(text_to_display, BreakToken))
        => wrap_result = text_to_display

\* C3 amended: a text of at most 1000 bytes that contains the break token is
\* returned unchanged for any L, B > 0.
C3_Passthrough ==
    (WrapDone /\ ValidParams /\ Contains(text_to_display, BreakToken)
        /\ Len(text_to_display) <= MaxTextLen)
        => wrap_result = text_to_display

\* C3 witness: a text with the break token that is longer than L*B and has a
\* space to strip was returned.
C3_Witness ==
    /\ WrapDone /\ ValidParams
    /\ Contains(text_to_display, BreakToken)
    /\ BeginsWithSpace(text_to_display)
    /\ Len(text_to_display) > line_length_limit * bytes_per_char
    /\ wrap_result = text_to_display

\* C4 as stated: every text longer than 1000 bytes yields the overflow
\* marker, whatever L, B and the content, and a text of exactly 1000 bytes
\* never yields it.  The second half fails for 980 spaces followed by the
\* marker's own text.
C4_OverflowMarkerOnlyPastLimit ==
    WrapDone =>
        /\ Len(text_to_display) > MaxTextLen => wrap_result = ErrorTooLong
        /\ Len(text_to_display) = MaxTextLen => wrap_result # ErrorTooLong

\* C4 amended: every text longer than 1000 bytes yields the overflow marker,
\* whatever L, B and the content; a text of exactly 1000 bytes is not
\* rejected by the length guard and yields the marker's text only when it is
\* itself 980 spaces followed by that text and L, B > 0.
C4_OverflowMarker ==
    WrapDone =>
        /\ Len(text_to_display) > MaxTextLen =>
              wrap_result = ErrorTooLong /\ wrap_path = "too_long"
        /\ Len(text_to_display) = MaxTextLen =>
              /\ wrap_path # "too_long"
              /\ wrap_result = ErrorTooLong =>
                    /\ ValidParams
                    /\ text_to_display =
                         Fill(" ", MaxTextLen - Len(ErrorTooLong)) \o ErrorTooLong

\* C4 witness: a text of 1001 bytes that holds the break token was rejected
\* with L = 0.
C4_Witness ==
    /\ WrapDone
    /\ Len(text_to_display) = MaxTextLen + 1
    /\ Contains(text_to_display, BreakToken)
    /\ line_length_limit = 0
    /\ wrap_result = ErrorTooLong

\* C5: for every text of at most 1000 bytes, L = 0 or B = 0 yields the
\* invalid-parameter marker, also when the text holds the break token or
\* would fit on a line; the marker differs from the overflow marker.
C5_InvalidParameterMarker ==
    /\ ErrorInvalidLength # ErrorTooLong
    /\ (WrapDone /\ Len(text_to_display) <= MaxTextLen
            /\ (line_length_limit = 0 \/ bytes_per_char = 0))
          => wrap_result = ErrorInvalidLength

\* C5 witness: a text with the break token was rejected for B = 0 alone.
C5_Witness ==
    /\ WrapDone
    /\ Contains(text_to_display, BreakToken)
    /\ line_length_limit > 0 /\ bytes_per_char = 0
    /\ wrap_result = ErrorInvalidLength

\* C6: for L, B > 0 and a text of at most L*B bytes (and at most 1000), the
\* output is the text, byte for byte.
C6_ShortTextUnchanged ==
    (WrapDone /\ ValidParams
        /\ Len(text_to_display) <= line_length_limit * bytes_per_char
        /\ Len(text_to_display) <= MaxTextLen)
        => wrap_result = text_to_display

\* C6 witness: a text of exactly L*B bytes that begins and ends with a space
\* was returned on the no-wrapping path.
C6_Witness ==
    /\ WrapDone /\ wrap_path = "short"
    /\ Len(text_to_display) = line_length_limit * bytes_per_char
    /\ BeginsWithSpace(text_to_display)
    /\ At(text_to_display, Len(text_to_display) - 1) = " "
    /\ wrap_result = text_to_display

\* the loop of wrapText has run an iteration that appended a slice
Appended == wrap_pc \in {"loop", "done"} /\ wrap_slice # <<>>

\* C15: for a text of at most 1000 bytes and L, B in 1..255, every offset
\* read by a loop iteration lies in 0..length-1 and the slice [start, end)
\* it appends has start < end <= length.
C15_ReadsAndSlicesInBounds ==
    (Len(text_to_display) <= MaxTextLen /\ ValidParams)
        => /\ \A i \in wrap_reads : 0 <= i /\ i < Len(text_to_display)
           /\ Appended => /\ wrap_slice[1] < wrap_slice[2]
                          /\ wrap_slice[2] <= Len(text_to_display)

\* C15 witness: in a text of 1000 bytes, an iteration looked backwards for a
\* space from the last offset but one, found none and appended a slice cut
\* at the byte limit.
C15_Witness ==
    /\ Appended
    /\ Len(text_to_display) = MaxTextLen
    /\ (MaxTextLen - 1) \in wrap_reads
    /\ wrap_slice[2] = MaxTextLen - 1
    /\ At(text_to_display, wrap_slice[2]) # " "

\* C20: on the wrapping path (a text of at most 1000 bytes without the
\* break token and longer than L*B, L and B > 0), every segment appended by
\* a loop iteration is non-empty, is at most L*B bytes long, hard breaks
\* included, and starts with a byte that is not a space.
C20_SegmentsBounded ==
    (Appended /\ wrap_path \in {"none", "wrapped"})
        => LET segment_len == wrap_slice[2] - wrap_slice[1] IN
           /\ Len(text_to_display) <= MaxTextLen
           /\ ~Contains(text_to_display, BreakToken)
           /\ Len(text_to_display) > line_length_limit * bytes_per_char
           /\ ValidParams
           /\ segment_len > 0
           /\ segment_len <= line_length_limit * bytes_per_char
           /\ At(text_to_display, wrap_slice[1]) # " "

\* C20 witness: after a run of at least two spaces, a word longer than L*B
\* was cut by a hard break into a segment of exactly L*B bytes.
C20_Witness ==
    /\ Appended
    /\ wrap_slice[1] >= 2
    /\ At(text_to_display, wrap_slice[1] - 1) = " "
    /\ At(text_to_display, wrap_slice[1] - 2) = " "
    /\ wrap_slice[2] - wrap_slice[1] = line_length_limit * bytes_per_char
    /\ wrap_slice[2] < Len(text_to_display)
    /\ ~HasSpace(Substr(text_to_display, wrap_slice[1],
                        wrap_slice[2] - wrap_slice[1] + 1))

\* C21: the wrap loop terminates for a text of at most 1000 bytes and
\* L, B > 0: every iteration leaves start strictly greater than it found it,
\* and the loop runs at most as many iterations as the text has bytes.
C21_LoopAdvances ==
    /\ [][WrapIteration => start' > start]_vars
    /\ [](wrap_iterations <= Len(text_to_display) /\ start <= Len(text_to_display))

\* C21 witness: the loop has returned after as many iterations as the text
\* has bytes, more than two.
C21_Witness ==
    /\ WrapDone /\ wrap_path = "wrapped"
    /\ wrap_iterations = Len(text_to_display)
    /\ wrap_iterations > 2

\* the byte budget of a line
Budget == line_length_limit * bytes_per_char

\* the bytes at offsets i - 1 and i of the text lie in a run of more than n
\* bytes that are not spaces: some n + 1 bytes in a row, these two among
\* them, hold no space
InRunLongerThan(text, i, n) ==
    \E a \in (IF i - n > 0 THEN i - n ELSE 0)..(i - 1) :
        /\ a + n < Len(text)
        /\ \A k \in a..(a + n) : At(text, k) # " "

\* a space lies at an offset of the text in (from, from + Budget]
SpaceInWindow(text, from) ==
    LET last == IF from + Budget < Len(text) THEN from + Budget
                ELSE Len(text) - 1
    IN \E k \in (from + 1)..last : At(text, k) = " "

\* C22 as stated: whenever a space lies at an offset in
\* (start, start + L*B], the line ends at a space.  It fails for the last
\* line, which runs to the end of the text whatever spaces it holds.
C22_SpaceInWindowEndsAtSpace ==
    (Appended /\ SpaceInWindow(text_to_display, wrap_slice[1]))
        => /\ wrap_slice[2] < Len(text_to_display)
           /\ At(text_to_display, wrap_slice[2]) = " "

\* C22, amended: a break token is placed between two adjacent bytes that are
\* not spaces only when the run of such bytes around them is longer than
\* L*B; when start + L*B is below the length of the text and a space lies at
\* an offset in (start, start + L*B], the line ends at the last such space;
\* when start + L*B is not below the length, the line runs to the end of the
\* text.
C22_NoSplitOfFittingWord ==
    Appended =>
        LET from == wrap_slice[1]
            end == wrap_slice[2]
            text == text_to_display
        IN /\ (end < Len(text) /\ At(text, end - 1) # " " /\ At(text, end) # " ")
                => InRunLongerThan(text, end, Budget)
           /\ (from + Budget < Len(text) /\ SpaceInWindow(text, from))
                => /\ At(text, end) = " "
                   /\ \A k \in (end + 1)..(from + Budget) : At(text, k) # " "
           /\ from + Budget >= Len(text) => end = Len(text)

\* C22 witness: the cutoff at start + L*B fell between two bytes of a word,
\* and the line was ended at the space before that word instead.
C22_Witness ==
    /\ Appended
    /\ wrap_slice[1] + Budget < Len(text_to_display)
    /\ At(text_to_display, wrap_slice[1] + Budget) # " "
    /\ At(text_to_display, wrap_slice[1] + Budget - 1) # " "
    /\ wrap_slice[2] < wrap_slice[1] + Budget - 1
    /\ At(text_to_display, wrap_slice[2]) = " "

\* s without its spaces
WithoutSpaces(s) == SelectSeq(s, LAMBDA c : c # " ")

\* s without the break tokens it holds
WithoutTokens(s) ==
    LET tokens == TokenPositions(s)
        indexed == [i \in 1..Len(s) |-> <<i, s[i]>>]
        kept == SelectSeq(indexed,
                          LAMBDA p : p[1] \notin tokens /\ (p[1] - 1) \notin tokens)
    IN [i \in 1..Len(kept) |-> kept[i][2]]

\* wrapText is in its loop or has returned from it
Wrapping == wrap_pc = "loop" \/ (WrapDone /\ wrap_path = "wrapped")

\* C23: on the wrapping path no content is lost or reordered: the appended
\* segments, one after the other and without their spaces, are the input up
\* to the cursor without its spaces, the whole input once wrapText has
\* returned; and the output is these segments with break tokens put in.
C23_ContentPreserved ==
    Wrapping =>
        /\ WithoutSpaces(wrap_segments)
              = WithoutSpaces(SubSeq(text_to_display, 1, start))
        /\ WithoutTokens(wrapped_text) = wrap_segments
        /\ WrapDone =>
              /\ start = Len(text_to_display)
              /\ wrap_result = wrapped_text

\* C23 witness: wrapText returned three or more segments for an input in
\* which it dropped spaces at the start, between lines and at the end.
C23_Witness ==
    /\ WrapDone /\ wrap_path = "wrapped"
    /\ Cardinality(TokenPositions(wrap_result)) >= 2
    /\ BeginsWithSpace(text_to_display)
    /\ text_to_display[Len(text_to_display)] = " "
    /\ Len(wrap_segments) < Len(text_to_display) - 2
    /\ WithoutSpaces(wrap_segments) = WithoutSpaces(text_to_display)

\* s ends with the break token
EndsWithToken(s) ==
    Len(s) >= 2 /\ SubSeq(s, Len(s) - 1, Len(s)) = BreakToken

\* C24: the output of the wrapping path never ends with the break token:
\* every token inserted is followed by a line that is not empty.  (Violated
\* by an input that ends with spaces behind a line break.)
C24_NeverEndsWithToken ==
    (WrapDone /\ wrap_path = "wrapped") => ~EndsWithToken(wrap_result)

\* C25: the output built by wrapText never exceeds the capacity reserved
\* for it, the length of the text and 20 bytes more.  (Violated once more
\* than ten break tokens have been inserted.)
C25_WithinReservedCapacity ==
    Wrapping => Len(wrapped_text) <= Reserved(TextLen(text_to_display))

\* wrapText has returned from a call on the result of the call before
Rewrapped == WrapDone /\ wrap_calls > 1

\* C26 as stated: for every text and L, B > 0, wrapping the result of
\* wrapText again returns that result.  It fails when the first result is
\* longer than 1000 bytes, and when it is the overflow marker and L*B is
\* less than the length of the marker.
C26_IdempotentForEveryText ==
    (Rewrapped /\ ValidParams) => wrap_result = wrap_previous.result

\* C26, amended: for every text of at most 1000 bytes whose wrapped result
\* is at most 1000 bytes long, and every L and B, wrapping the result again
\* returns it; a result longer than 1000 bytes is turned into the overflow
\* marker by the second call.
C26_IdempotentWithinLimit ==
    (Rewrapped /\ Len(wrap_previous.text) <= MaxTextLen)
        => /\ Len(wrap_previous.result) <= MaxTextLen
                => wrap_result = wrap_previous.result
           /\ Len(wrap_previous.result) > MaxTextLen
                => wrap_result = ErrorTooLong

\* C26 witness: a text was wrapped into three lines or more, and the second
\* call returned these lines as they were.
C26_Witness ==
    /\ Rewrapped /\ ValidParams
    /\ Cardinality(TokenPositions(wrap_previous.result)) >= 2
    /\ wrap_previous.result # wrap_previous.text
    /\ wrap_path = "formatted"
    /\ wrap_result = wrap_previous.result

(***************************************************************************)
(* Claims about adjustDecimalSeparator, checked under SpecAdjust.          *)
(***************************************************************************)
AdjustDone == adjust_pc = "done"

\* the length of the maximal prefix of s over {0-9, '.', '-', ','}
CandidateLen(s) ==
    CHOOSE n \in 0..Len(s) :
        /\ \A i \in 1..n : s[i] \in Digits \cup {".", "-", ","}
        /\ n = Len(s) \/ s[n + 1] \notin Digits \cup {".", "-", ","}

Candidate(s) == SubSeq(s, 1, CandidateLen(s))

\* c is a floating-point number in full: an optional '-', then digits with at
\* most one '.', at least one digit
IsNumber(c) ==
    LET body == IF Len(c) > 0 /\ c[1] = "-" THEN Tail(c) ELSE c IN
    /\ \A i \in 1..Len(body) : body[i] \in Digits \cup {"."}
    /\ Cardinality({i \in 1..Len(body) : body[i] = "."}) <= 1
    /\ \E i \in 1..Len(body) : body[i] \in Digits

\* the positions (from 1) of '.' in s
DotPositions(s) == {i \in 1..Len(s) : s[i] = "."}

\* C7: with a separator other than '.', when the maximal prefix over
\* {0-9, '.', '-', ','} is non-empty and is a number in full, the output is
\* the input with the first '.' of that prefix (if any) replaced by the
\* separator, and everything after the prefix unchanged.
C7_RewritesFirstDotOfPrefix ==
    (AdjustDone /\ decimalSeparator # "."
        /\ CandidateLen(input) > 0 /\ IsNumber(Candidate(input)))
        => /\ Len(adjust_result) = Len(input)
           /\ \A i \in 1..Len(input) :
                adjust_result[i] =
                    IF /\ i \in DotPositions(Candidate(input))
                       /\ \A j \in DotPositions(Candidate(input)) : i <= j
                    THEN decimalSeparator
                    ELSE input[i]

\* C7 witness: a number with a '.' was rewritten and the suffix after it,
\* which holds a '.' of its own, was kept.
C7_Witness ==
    /\ AdjustDone /\ decimalSeparator = ","
    /\ DotPositions(Candidate(input)) # {}
    /\ DotPositions(input) # DotPositions(Candidate(input))
    /\ IsNumber(Candidate(input))
    /\ adjust_result # input

\* C8: the output is the input, unchanged, in every no-op case: the
\* separator is '.', the input has no leading character of
\* {0-9, '.', '-', ','}, or the numeric candidate is not a number in full.
C8_NoOpCasesUnchanged ==
    (AdjustDone /\ (\/ decimalSeparator = "."
                    \/ CandidateLen(input) = 0
                    \/ ~IsNumber(Candidate(input))))
        => adjust_result = input

\* C8 witness: a candidate that begins with a number but holds a second '.'
\* was returned unchanged under another separator.
C8_Witness ==
    /\ AdjustDone /\ decimalSeparator = ","
    /\ Cardinality(DotPositions(Candidate(input))) = 2
    /\ Candidate(input)[1] \in Digits
    /\ adjust_result = input

(***************************************************************************)
(* The process around adjustDecimalSeparator: its numeric locale, which    *)
(* strtod consults, and a repeated call with the same arguments.           *)
(***************************************************************************)
\* the radix characters of numeric locales: '.' ("C") and ','
Radixes == {".", ","}

\* the process starts in the "C" locale and has made no earlier call
ProcessInit ==
    /\ locale_radix = "."
    /\ adjust_calls = 1
    /\ adjust_previous = <<>>
    /\ wrap_calls = 1
    /\ wrap_previous = [text |-> <<>>, result |-> <<>>]

\* the process changes its numeric locale (setlocale, from any thread)
SetLocale ==
    /\ \E radix \in Radixes \ {locale_radix} : locale_radix' = radix
    /\ UNCHANGED <<adjust_vars, adjust_calls, adjust_previous,
                   wrap_calls, wrap_previous, process_frame>>

\* adjustDecimalSeparator is called again with the arguments of the call
\* that has returned
AdjustCallAgain ==
    /\ adjust_pc = "done"
    /\ adjust_calls < MaxCalls
    /\ adjust_calls' = adjust_calls + 1
    /\ adjust_previous' = adjust_result
    /\ adjust_pc' = "call"
    /\ adjust_path' = "none"
    /\ adjust_result' = <<>>
    /\ UNCHANGED <<input, decimalSeparator, locale_radix,
                   wrap_calls, wrap_previous, process_frame>>

\* the process has set its numeric locale at startup and has made no call
ProcessStarted ==
    /\ locale_radix \in Radixes
    /\ adjust_calls = 1
    /\ adjust_previous = <<>>
    /\ wrap_calls = 1
    /\ wrap_previous = [text |-> <<>>, result |-> <<>>]

\* adjustDecimalSeparator is called on the result of the call that has
\* returned, with the same decimalSeparator
AdjustCallOnResult ==
    /\ adjust_pc = "done"
    /\ adjust_calls < MaxCalls
    /\ adjust_calls' = adjust_calls + 1
    /\ adjust_previous' = adjust_result
    /\ input' = adjust_result
    /\ adjust_pc' = "call"
    /\ adjust_path' = "none"
    /\ adjust_result' = <<>>
    /\ UNCHANGED <<decimalSeparator, locale_radix,
                   wrap_calls, wrap_previous, process_frame>>

\* wrapText is called on the result of the call that has returned, with the
\* same line_length_limit and bytes_per_char
WrapCallOnResult ==
    /\ wrap_pc = "done"
    /\ wrap_calls < MaxCalls
    /\ wrap_calls' = wrap_calls + 1
    /\ wrap_previous' = [text |-> text_to_display, result |-> wrap_result]
    /\ text_to_display' = wrap_result
    /\ wrap_pc' = "call"
    /\ wrap_path' = "none"
    /\ start' = 0
    /\ wrapped_text' = <<>>
    /\ wrap_result' = <<>>
    /\ wrap_reads' = {}
    /\ wrap_slice' = <<>>
    /\ wrap_iterations' = 0
    /\ wrap_segments' = <<>>
    /\ UNCHANGED <<line_length_limit, bytes_per_char, locale_radix,
                   adjust_calls, adjust_previous, wrap_frame_of_caller>>

\* C14, for adjustDecimalSeparator: a call returns what the call before it
\* with equal arguments returned, whatever the process did to its numeric
\* locale in between.  (Violated.)
C14_EqualArgumentsEqualResults ==
    (AdjustDone /\ adjust_calls > 1) => adjust_result = adjust_previous

\* the positions at which the result differs from the input
ChangedPositions ==
    {i \in 1..Len(input) : adjust_result[i] # input[i]}

\* C29: adjustDecimalSeparator changes at most one byte: the result is as
\* long as the input and differs from it in at most one position, where the
\* input holds '.' and the result holds decimalSeparator.
C29_AtMostOneByteChanged ==
    AdjustDone =>
        /\ Len(adjust_result) = Len(input)
        /\ Cardinality(ChangedPositions) <= 1
        /\ \A i \in ChangedPositions :
               input[i] = "." /\ adjust_result[i] = decimalSeparator

\* C29 witness: "1.1C." with separator ',' became "1,1C.": one byte changed,
\* the suffix and its '.' kept.
C29_Witness ==
    /\ AdjustDone /\ adjust_path = "rewritten"
    /\ input = <<"1", ".", "1", "C", ".">> /\ decimalSeparator = ","
    /\ adjust_result = <<"1", ",", "1", "C", ".">>
    /\ ChangedPositions = {2}

\* the call that has returned was made on the result of the call before it
Readjusted == AdjustDone /\ adjust_calls > 1 /\ input = adjust_previous

\* C30: adjustDecimalSeparator is idempotent for a fixed separator: called on
\* its own result with the same separator, it returns that result.
C30_Idempotent ==
    Readjusted => adjust_result = input

\* C30 witness: the first call replaced a '.', and the second call, made on
\* that result, returned it unchanged.
C30_Witness ==
    /\ Readjusted
    /\ decimalSeparator # "."
    /\ ~Contains(input, <<".">>)
    /\ \E i \in 1..Len(input) : input[i] = decimalSeparator
    /\ adjust_path = "rewritten"
    /\ adjust_result = input

(***************************************************************************)
(* Claims about decode_utf8, checked under SpecDecode.                     *)
(***************************************************************************)
DecodeDone == decode_pc = "done"

\* the bytes of a non-null input, the terminator left out
Chars == bytes.chars

\* a byte of the form 10xxxxxx
IsTailByte(b) == b >= \h80 /\ b <= \hBF

\* the input begins with a lead byte of 2 (3) bytes and its continuation
\* bytes
BeginsTwoByteSequence ==
    /\ ~bytes.null /\ Len(Chars) >= 2
    /\ Chars[1] >= \hC0 /\ Chars[1] <= \hDF
    /\ IsTailByte(Chars[2])
BeginsThreeByteSequence ==
    /\ ~bytes.null /\ Len(Chars) >= 3
    /\ Chars[1] >= \hE0 /\ Chars[1] <= \hEF
    /\ IsTailByte(Chars[2]) /\ IsTailByte(Chars[3])

\* the value the payload bits of the sequence spell
TwoBytePayload == (Chars[1] - \hC0) * 64 + (Chars[2] - \h80)
ThreeBytePayload ==
    (Chars[1] - \hE0) * 4096 + (Chars[2] - \h80) * 64 + (Chars[3] - \h80)

\* C9: decode_utf8 returns 0 for every 2-byte sequence that decodes to a
\* value below 0x80, every 3-byte sequence that decodes to a value below
\* 0x800 and every 3-byte sequence that decodes to a value in 0xD800..0xDFFF.
C9_OverlongAndSurrogateRejected ==
    DecodeDone =>
        /\ (BeginsTwoByteSequence /\ TwoBytePayload < \h80) => code_point = 0
        /\ (BeginsThreeByteSequence /\ ThreeBytePayload < \h800)
              => code_point = 0
        /\ (BeginsThreeByteSequence
                /\ ThreeBytePayload >= \hD800 /\ ThreeBytePayload <= \hDFFF)
              => code_point = 0

\* C9 witness: ED A0 80, the 3-byte form of the surrogate 0xD800, was decoded
\* to 0.
C9_Witness ==
    /\ DecodeDone /\ ~bytes.null
    /\ Chars = <<\hED, \hA0, \h80>>
    /\ ThreeBytePayload = \hD800
    /\ code_point = 0

\* C10: decode_utf8 returns 0 whenever the input is null or empty, the first
\* byte is no lead byte (0x80..0xBF, 0xF8..0xFF), the string ends before
\* all the continuation bytes the lead byte announces, or one of these
\* continuation bytes is not of the form 10xxxxxx.
C10_MalformedInputYieldsZero ==
    (DecodeDone /\
        (\/ bytes.null
         \/ Len(Chars) = 0
         \/ AnnouncedLength(Chars[1]) = 0
         \/ Len(Chars) < AnnouncedLength(Chars[1])
         \/ \E k \in 2..AnnouncedLength(Chars[1]) : ~IsTailByte(Chars[k])))
        => code_point = 0

\* C10 witness: a 4-byte lead with two good continuation bytes and a third
\* that is not one was decoded to 0.
C10_Witness ==
    /\ DecodeDone /\ ~bytes.null
    /\ Len(Chars) = 4 /\ Chars[1] = \hF0
    /\ IsTailByte(Chars[2]) /\ IsTailByte(Chars[3]) /\ Chars[4] = \hC0
    /\ code_point = 0

\* the standard (shortest) UTF-8 encoding of the scalar value v
Utf8Encode(v) ==
    IF v < \h80 THEN <<v>>
    ELSE IF v < \h800 THEN <<\hC0 + (v \div 64), \h80 + (v % 64)>>
    ELSE IF v < \h10000
         THEN <<\hE0 + (v \div 4096), \h80 + ((v \div 64) % 64),
               \h80 + (v % 64)>>
    ELSE <<\hF0 + (v \div 262144), \h80 + ((v \div 4096) % 64),
           \h80 + ((v \div 64) % 64), \h80 + (v % 64)>>

\* a Unicode scalar value other than NUL
IsScalarValue(v) ==
    v >= 1 /\ v <= \h10FFFF /\ ~(v >= \hD800 /\ v <= \hDFFF)

IsPrefix(p, s) == Len(p) <= Len(s) /\ SubSeq(s, 1, Len(p)) = p

\* the value the payload bits of the first n bytes spell, were they a lead
\* byte of n bytes and its continuation bytes
Payload(s, n) ==
    IF n = 1 THEN s[1]
    ELSE IF n = 2 THEN (s[1] % 32) * 64 + (s[2] % 64)
    ELSE IF n = 3 THEN (s[1] % 16) * 4096 + (s[2] % 64) * 64 + (s[3] % 64)
    ELSE (s[1] % 8) * 262144 + (s[2] % 64) * 4096 + (s[3] % 64) * 64
         + (s[4] % 64)

\* the only scalar value whose encoding the input can begin with: two
\* encodings that begin alike have the same length and the same payload
CandidateScalar ==
    LET n == AnnouncedLength(Chars[1]) IN
    IF n = 0 \/ Len(Chars) < n THEN 0 ELSE Payload(Chars, n)

\* C11: for every scalar value v in 1..0x10FFFF outside 0xD800..0xDFFF,
\* decode_utf8 of the standard encoding of v followed by any further bytes
\* is v.
C11_DecodesStandardEncoding ==
    (DecodeDone /\ ~bytes.null /\ Len(Chars) > 0
        /\ IsScalarValue(CandidateScalar)
        /\ IsPrefix(Utf8Encode(CandidateScalar), Chars))
        => code_point = CandidateScalar

\* C11 witness: F4 8F BF BF, the encoding of 0x10FFFF, was decoded with a
\* further byte behind it.
C11_Witness ==
    /\ DecodeDone /\ ~bytes.null
    /\ Len(Chars) = 5
    /\ IsPrefix(Utf8Encode(\h10FFFF), Chars)
    /\ SubSeq(Chars, 1, 4) = <<\hF4, \h8F, \hBF, \hBF>>
    /\ code_point = \h10FFFF

\* the input begins with a lead byte 0xF0..0xF7 and three bytes 10xxxxxx
BeginsFourByteSequence ==
    /\ ~bytes.null /\ Len(Chars) >= 4
    /\ Chars[1] >= \hF0 /\ Chars[1] <= \hF7
    /\ IsTailByte(Chars[2]) /\ IsTailByte(Chars[3]) /\ IsTailByte(Chars[4])

\* C12: for a lead byte 0xF0..0xF7 followed by three bytes 10xxxxxx,
\* decode_utf8 returns the 21-bit payload, values above 0x10FFFF included.
C12_FourBytePayloadUnbounded ==
    (DecodeDone /\ BeginsFourByteSequence)
        => code_point = (Chars[1] - \hF0) * 262144 + (Chars[2] - \h80) * 4096
                          + (Chars[3] - \h80) * 64 + (Chars[4] - \h80)

\* C12 witness: F7 BF BF BF was decoded to 0x1FFFFF.
C12_Witness ==
    /\ DecodeDone /\ BeginsFourByteSequence
    /\ SubSeq(Chars, 1, 4) = <<\hF7, \hBF, \hBF, \hBF>>
    /\ code_point = \h1FFFFF

\* C27: decode_utf8 reads no byte after the terminator of its input: every
\* offset it reads is at most the offset of the first NUL, and an offset is
\* read only when every offset before it was read and held a non-zero byte;
\* a null pointer is not read at all.
C27_ReadsStopAtTerminator ==
    DecodeDone =>
        IF bytes.null THEN decode_reads = {}
        ELSE \A k \in decode_reads :
                 /\ k <= Len(Chars)
                 /\ \A j \in 0..(k - 1) : j \in decode_reads /\ Chars[j + 1] # 0

\* C27 witness: a four-byte lead followed by one byte and the terminator was
\* read up to the terminator at offset 2, and offset 3 was left unread.
C27_Witness ==
    /\ DecodeDone /\ ~bytes.null
    /\ Len(Chars) = 2 /\ Chars[1] = \hF0
    /\ decode_reads = {0, 1, 2}
    /\ code_point = 0

\* C28: decode_utf8 never returns a UTF-16 surrogate: whatever the encoded
\* length of the input, the result is not in 0xD800..0xDFFF.
C28_NeverReturnsSurrogate ==
    DecodeDone => ~(code_point >= \hD800 /\ code_point <= \hDFFF)

(***************************************************************************)
(* isStringInList                                                          *)
(***************************************************************************)
\* the strings searched for and listed: the empty string, and strings that
\* differ in case, in a leading or trailing space, and by being a prefix
Words ==
    {<<>>, <<"a">>, <<"A">>, <<"a", " ">>, <<" ", "a">>,
     <<"a", "b">>, <<"a", "B">>, <<"a", "b", "c">>}

Lists == SeqsUpTo(Words, MaxListLen)

\* a stand-in for operator== that compares only over the shorter length
StringEq_Prefix(a, b) ==
    LET n == IF Len(a) < Len(b) THEN Len(a) ELSE Len(b) IN
    \A i \in 1..n : a[i] = b[i]

\* std::string operator==: equal sizes and equal bytes
StringEq(a, b) ==
    /\ Len(a) = Len(b)
    /\ \A i \in 1..Len(a) : a[i] = b[i]

InListInit ==
    /\ strToSearch \in Words
    /\ list \in Lists
    /\ inlist_it = 0
    /\ inlist_pc = "any_of"
    /\ inlist_result = FALSE

\* std::any_of: the predicate holds at the iterator
InListFound ==
    /\ inlist_pc = "any_of"
    /\ inlist_it < Len(list)
    /\ StringEq(strToSearch, At(list, inlist_it))
    /\ inlist_result' = TRUE
    /\ inlist_pc' = "done"
    /\ UNCHANGED <<strToSearch, list, inlist_it, inlist_frame>>

\* std::any_of: the predicate fails at the iterator, which moves on
InListAdvance ==
    /\ inlist_pc = "any_of"
    /\ inlist_it < Len(list)
    /\ ~StringEq(strToSearch, At(list, inlist_it))
    /\ inlist_it' = inlist_it + 1
    /\ UNCHANGED <<strToSearch, list, inlist_pc, inlist_result, inlist_frame>>

\* std::any_of: the iterator is at list.end()
InListNotFound ==
    /\ inlist_pc = "any_of"
    /\ inlist_it = Len(list)
    /\ inlist_result' = FALSE
    /\ inlist_pc' = "done"
    /\ UNCHANGED <<strToSearch, list, inlist_it, inlist_frame>>

(***************************************************************************)
(* Claims about isStringInList, checked under SpecInList.                  *)
(***************************************************************************)
InListDone == inlist_pc = "done"

\* C13: isStringInList returns true exactly when strToSearch is equal,
\* byte for byte, to an element of the list, and false for an empty list.
C13_ExactMembership ==
    InListDone =>
        /\ inlist_result = (\E i \in 1..Len(list) : list[i] = strToSearch)
        /\ (list = <<>> => inlist_result = FALSE)

\* C13 witness: "a" was searched in a list holding only a prefix-extension
\* and a case variant of it, and was not found.
C13_Witness ==
    /\ InListDone
    /\ strToSearch = <<"a">>
    /\ list = <<<<"a", " ">>, <<"A">>>>
    /\ inlist_result = FALSE

(***************************************************************************)
(* Hardware settings (components/nspanel_easy/hardware.h): eight one-bit   *)
(* fields packed into the byte hardware_settings_raw.                      *)
(***************************************************************************)
\* struct HardwareSettings: each field is a bit-field of width 1
HardwareSettings ==
    [button_left_enabled : {0, 1}, button_left_state : {0, 1},
     button_right_enabled : {0, 1}, button_right_state : {0, 1},
     relay1_local : {0, 1}, relay1_fallback : {0, 1},
     relay2_local : {0, 1}, relay2_fallback : {0, 1}]

\* HardwareSettings(): all flags zero
DefaultSettings ==
    [button_left_enabled |-> 0, button_left_state |-> 0,
     button_right_enabled |-> 0, button_right_state |-> 0,
     relay1_local |-> 0, relay1_fallback |-> 0,
     relay2_local |-> 0, relay2_fallback |-> 0]

\* a >> n
Shr(a, n) == a \div 2 ^ n

\* from_raw
from_raw(raw) ==
    [button_left_enabled  |-> BitAnd(Shr(raw, 0), 1),
     button_left_state    |-> BitAnd(Shr(raw, 1), 1),
     button_right_enabled |-> BitAnd(Shr(raw, 2), 1),
     button_right_state   |-> BitAnd(Shr(raw, 3), 1),
     relay1_local         |-> BitAnd(Shr(raw, 4), 1),
     relay1_fallback      |-> BitAnd(Shr(raw, 5), 1),
     relay2_local         |-> BitAnd(Shr(raw, 6), 1),
     relay2_fallback      |-> BitAnd(Shr(raw, 7), 1)]

\* to_raw with relay2_fallback shifted to bit 6, where relay2_local is
to_raw_SharedBit(s) ==
    BitOr(Shl(s.button_left_enabled, 0),
    BitOr(Shl(s.button_left_state, 1),
    BitOr(Shl(s.button_right_enabled, 2),
    BitOr(Shl(s.button_right_state, 3),
    BitOr(Shl(s.relay1_local, 4),
    BitOr(Shl(s.relay1_fallback, 5),
    BitOr(Shl(s.relay2_local, 6),
          Shl(s.relay2_fallback, 6)))))))) % (UInt8Max + 1)

\* to_raw: the fields or-ed at their bit positions, returned as a uint8_t
to_raw(s) ==
    BitOr(Shl(s.button_left_enabled, 0),
    BitOr(Shl(s.button_left_state, 1),
    BitOr(Shl(s.button_right_enabled, 2),
    BitOr(Shl(s.button_right_state, 3),
    BitOr(Shl(s.relay1_local, 4),
    BitOr(Shl(s.relay1_fallback, 5),
    BitOr(Shl(s.relay2_local, 6),
          Shl(s.relay2_fallback, 7)))))))) % (UInt8Max + 1)

\* hardware_settings_raw is a uint8_t restored from flash: any byte
HardwareInit ==
    /\ hardware_settings_raw \in 0..UInt8Max
    /\ hw_written = DefaultSettings
    /\ hw_read = DefaultSettings
    /\ hw_calls = "none"

\* get_hardware_settings(hardware_settings_raw)
get_hardware_settings ==
    /\ hw_read' = from_raw(hardware_settings_raw)
    /\ hw_calls' = IF hw_calls \in {"set", "set_get"} THEN "set_get" ELSE "get"
    /\ UNCHANGED <<hardware_settings_raw, hw_written, hw_frame>>

\* set_hardware_settings(hardware_settings_raw, settings)
set_hardware_settings ==
    /\ \E settings \in HardwareSettings :
          /\ hardware_settings_raw' = to_raw(settings)
          /\ hw_written' = settings
    /\ hw_read' = DefaultSettings
    /\ hw_calls' = "set"
    /\ UNCHANGED hw_frame

(***************************************************************************)
(* Claims about the hardware settings, checked under SpecHardware.         *)
(***************************************************************************)
\* the value of the four button bits and of the four relay bits of s
ButtonBits(s) ==
    s.button_left_enabled + 2 * s.button_left_state
        + 4 * s.button_right_enabled + 8 * s.button_right_state

RelayBits(s) ==
    s.relay1_local + 2 * s.relay1_fallback
        + 4 * s.relay2_local + 8 * s.relay2_fallback

\* C16: the packing is a bijection on one byte: to_raw(from_raw(r)) = r for
\* the byte r that was read, from_raw(to_raw(s)) = s for the settings s that
\* were written, a get after a set returns the settings that were set, and
\* the buttons are bits 0-3 and the relays bits 4-7 of the byte.
C16_PackingIsBijection ==
    /\ hw_calls \in {"get", "set_get"} =>
          /\ to_raw(hw_read) = hardware_settings_raw
          /\ ButtonBits(hw_read) = hardware_settings_raw % 16
          /\ RelayBits(hw_read) = hardware_settings_raw \div 16
    /\ hw_calls \in {"set", "set_get"} =>
          /\ from_raw(hardware_settings_raw) = hw_written
          /\ hardware_settings_raw \in 0..UInt8Max
    /\ hw_calls = "set_get" => hw_read = hw_written

\* C16 witness: settings with only relay2_fallback and button_left_state
\* set were written, as the byte 0x82, and read back.
C16_Witness ==
    /\ hw_calls = "set_get"
    /\ hw_written = [DefaultSettings EXCEPT !.relay2_fallback = 1,
                                            !.button_left_state = 1]
    /\ hardware_settings_raw = \h82
    /\ hw_read = hw_written

(***************************************************************************)
(* extractHomeAssistantEntity (components/nspanel_easy/ha_components.cpp)  *)
(***************************************************************************)
AlarmControlPanel ==
    <<"a", "l", "a", "r", "m", "_", "c", "o", "n", "t", "r", "o", "l", "_",
      "p", "a", "n", "e", "l">>

Alarm == <<"a", "l", "a", "r", "m">>

Invalid == <<"i", "n", "v", "a", "l", "i", "d">>

EntityAlphabet == {"a", "."}

\* the arguments: every string over EntityAlphabet up to MaxEntityLen, and
\* each of them behind "alarm_control_panel"
EntityIds ==
    LET short == SeqsUpTo(EntityAlphabet, MaxEntityLen) IN
    short \cup {AlarmControlPanel \o tail : tail \in short}

\* the offset of the last '.', for that of the first
DotPos_Last(id) ==
    IF \E i \in 0..(Len(id) - 1) : At(id, i) = "."
    THEN CHOOSE i \in 0..(Len(id) - 1) :
            At(id, i) = "." /\ \A j \in (i + 1)..(Len(id) - 1) : At(id, j) # "."
    ELSE Npos

\* size_t dotPos = entity_id.find(".");
DotPos(id) == Find(id, ".")

\* HasDomainAndId with dotPos + 1 < entity_id.size() not tested
HasDomainAndId_TrailingDot(id, dotPos) == dotPos # Npos /\ dotPos > 0

\* dotPos != npos && dotPos > 0 && dotPos + 1 < entity_id.size()
HasDomainAndId(id, dotPos) ==
    dotPos # Npos /\ dotPos > 0 /\ dotPos + 1 < Len(id)

EntityInit ==
    /\ entity_id \in EntityIds
    /\ entity_pc = "call"
    /\ result = [domain |-> <<>>, id |-> <<>>]

\* lines 13-18: domain and id are split at dotPos, the alarm alias applied
ExtractDomainAndId ==
    /\ entity_pc = "call"
    /\ HasDomainAndId(entity_id, DotPos(entity_id))
    /\ LET dotPos == DotPos(entity_id)
           domain == Substr(entity_id, 0, dotPos)
       IN result' = [domain |-> IF domain = AlarmControlPanel
                                THEN Alarm ELSE domain,
                     id |-> Substr(entity_id, dotPos + 1, Len(entity_id))]
    /\ entity_pc' = "done"
    /\ UNCHANGED <<entity_id, entity_frame>>

\* lines 19-23: the whole entity_id is the id of an invalid domain
ExtractInvalid ==
    /\ entity_pc = "call"
    /\ ~HasDomainAndId(entity_id, DotPos(entity_id))
    /\ result' = [domain |-> Invalid, id |-> entity_id]
    /\ entity_pc' = "done"
    /\ UNCHANGED <<entity_id, entity_frame>>

(***************************************************************************)
(* Claims about extractHomeAssistantEntity, checked under SpecEntity.      *)
(***************************************************************************)
EntityDone == entity_pc = "done"

\* the positions (from 1) of the '.' of s
Dots(s) == {i \in 1..Len(s) : s[i] = "."}

\* the position (from 1) of the first '.' of s, which has one
FirstDot(s) == CHOOSE i \in Dots(s) : \A j \in Dots(s) : i <= j

\* the first '.' of s is neither its first nor its last character
SplitsAtFirstDot(s) ==
    Dots(s) # {} /\ 1 < FirstDot(s) /\ FirstDot(s) < Len(s)

\* C17: for an entity_id whose first '.' is neither its first nor its last
\* character, the domain is the text before that dot, "alarm" when that
\* text is "alarm_control_panel", and the id is all the text after it; when
\* the alias does not apply, domain, '.' and id make up entity_id again and
\* the domain is non-empty and holds no '.'.
C17_SplitsAtFirstDot ==
    (EntityDone /\ SplitsAtFirstDot(entity_id))
        => LET p == FirstDot(entity_id)
               before == SubSeq(entity_id, 1, p - 1)
           IN /\ result.domain =
                    IF before = AlarmControlPanel THEN Alarm ELSE before
              /\ result.id = SubSeq(entity_id, p + 1, Len(entity_id))
              /\ before # AlarmControlPanel =>
                    /\ result.domain \o <<".">> \o result.id = entity_id
                    /\ result.domain # <<>>
                    /\ Dots(result.domain) = {}

\* C17 witness: "alarm_control_panel.a.a" was split into the domain "alarm"
\* and the id "a.a".
C17_Witness ==
    /\ EntityDone
    /\ entity_id = AlarmControlPanel \o <<".", "a", ".", "a">>
    /\ result = [domain |-> Alarm, id |-> <<"a", ".", "a">>]

\* C18: for an entity_id without a '.', or whose first '.' is its first or
\* its last character, the empty string included, the domain is "invalid"
\* and the id is the whole entity_id.
C18_InvalidKeepsEntityId ==
    (EntityDone /\ ~SplitsAtFirstDot(entity_id))
        => result = [domain |-> Invalid, id |-> entity_id]

\* C18 witness: "alarm_control_panel.", whose only '.' is its last
\* character, was returned as the id of the domain "invalid".
C18_Witness ==
    /\ EntityDone
    /\ entity_id = AlarmControlPanel \o <<".">>
    /\ result = [domain |-> Invalid, id |-> entity_id]

(***************************************************************************)
(* The utilities groups (components/nspanel_easy/page_utilities.cpp): a    *)
(* table of UTILITIES_GROUPS_COUNT entries sorted by group_id, searched by *)
(* findUtilitiesGroupIndex.  Only the group_id of an entry is modelled.    *)
(***************************************************************************)
UTILITIES_GROUPS_COUNT == 8

\* UtilitiesGroups = nullptr
NullTable == [null |-> TRUE, entries |-> <<>>]

Group(n) == <<"g", "r", "o", "u", "p", "0", n>>

\* the group_id column of INITIAL_UTILITIES_GROUPS
INITIAL_UTILITIES_GROUPS ==
    <<<<"g", "r", "i", "d">>,
      Group("1"), Group("2"), Group("3"), Group("4"), Group("5"), Group("6"),
      <<"h", "o", "m", "e">>>>

\* the value of a char of the ids and of the arguments tried
Code(c) ==
    CASE c = "0" -> 48 [] c = "1" -> 49 [] c = "2" -> 50 [] c = "3" -> 51
      [] c = "4" -> 52 [] c = "5" -> 53 [] c = "6" -> 54 [] c = "7" -> 55
      [] c = "G" -> 71 [] c = "a" -> 97 [] c = "d" -> 100 [] c = "e" -> 101
      [] c = "g" -> 103 [] c = "h" -> 104 [] c = "i" -> 105 [] c = "m" -> 109
      [] c = "o" -> 111 [] c = "p" -> 112 [] c = "r" -> 114 [] c = "u" -> 117
      [] c = "z" -> 122

\* the chars put into, and appended to, the ids to make arguments near them
ProbeChars == {"0", "7", "G", "a", "z"}

\* the arguments: a null pointer, the empty string, the ids of the table,
\* their proper prefixes, and each id with a char appended or one of its
\* chars replaced
GroupIds ==
    LET ids == {INITIAL_UTILITIES_GROUPS[i] : i \in 1..UTILITIES_GROUPS_COUNT}
    IN {NullPtr} \cup
       {CString(chars) :
          chars \in ids
             \cup UNION {{SubSeq(id, 1, n) : n \in 0..(Len(id) - 1)} :
                            id \in ids}
             \cup {id \o <<c>> : id \in ids, c \in ProbeChars}
             \cup UNION {{[id EXCEPT ![k] = c] : k \in 1..Len(id)} :
                            id \in ids, c \in ProbeChars}}

\* the sign of a comparison that stops at the end of the second string:
\* strncmp(a, b, strlen(b))
Strcmp_Prefix(a, b) ==
    LET differ == {i \in 1..Len(b) : i > Len(a) \/ a[i] # b[i]} IN
    IF differ = {} THEN 0
    ELSE LET i == CHOOSE d \in differ : \A e \in differ : d <= e IN
         IF i > Len(a) \/ Code(a[i]) < Code(b[i]) THEN -1 ELSE 1

\* the sign of std::strcmp(a, b): the chars at the first offset where the
\* strings differ are compared, the terminating NUL being below every char
Strcmp(a, b) ==
    LET n == IF Len(a) < Len(b) THEN Len(a) ELSE Len(b)
        differ == {i \in 1..n : a[i] # b[i]}
    IN IF differ = {}
       THEN IF Len(a) < Len(b) THEN -1 ELSE IF Len(a) > Len(b) THEN 1 ELSE 0
       ELSE LET i == CHOOSE d \in differ : \A e \in differ : d <= e IN
            IF Code(a[i]) < Code(b[i]) THEN -1 ELSE 1

\* int mid = low + (high - low) / 2;
Mid == low + (high - low) \div 2

\* std::strcmp(UtilitiesGroups[mid].group_id, group_id)
Cmp == Strcmp(UtilitiesGroups.entries[Mid + 1], group_id.chars)

GroupsInit ==
    /\ UtilitiesGroups = NullTable
    /\ group_id \in GroupIds
    /\ low = 0
    /\ high = 0
    /\ find_pc = "call"
    /\ find_iterations = 0
    /\ find_result = 0

\* resetUtilitiesGroups, the allocation having succeeded: the table is a
\* copy of INITIAL_UTILITIES_GROUPS
resetUtilitiesGroups ==
    /\ find_pc = "call"
    /\ UtilitiesGroups' = [null |-> FALSE, entries |-> INITIAL_UTILITIES_GROUPS]
    /\ UNCHANGED <<group_id, low, high, find_pc, find_iterations, find_result,
                   groups_frame>>

\* if (UtilitiesGroups == nullptr) return UINT8_MAX;
FindNoTable ==
    /\ find_pc = "call"
    /\ UtilitiesGroups.null
    /\ find_result' = UInt8Max
    /\ find_pc' = "done"
    /\ UNCHANGED <<UtilitiesGroups, group_id, low, high, find_iterations,
                   groups_frame>>

\* if (group_id == nullptr || *group_id == '\0') return UINT8_MAX;
FindNullOrEmpty ==
    /\ find_pc = "call"
    /\ ~UtilitiesGroups.null
    /\ group_id.null \/ group_id.chars = <<>>
    /\ find_result' = UInt8Max
    /\ find_pc' = "done"
    /\ UNCHANGED <<UtilitiesGroups, group_id, low, high, find_iterations,
                   groups_frame>>

\* lines 63-64
FindEnterLoop ==
    /\ find_pc = "call"
    /\ ~UtilitiesGroups.null
    /\ ~(group_id.null \/ group_id.chars = <<>>)
    /\ low' = 0
    /\ high' = UTILITIES_GROUPS_COUNT - 1
    /\ find_pc' = "loop"
    /\ UNCHANGED <<UtilitiesGroups, group_id, find_iterations, find_result,
                   groups_frame>>

\* if (cmp < 0) low = mid + 1;
FindGoRight ==
    /\ find_pc = "loop"
    /\ low <= high
    /\ Cmp < 0
    /\ low' = Mid + 1
    /\ find_iterations' = find_iterations + 1
    /\ UNCHANGED <<UtilitiesGroups, group_id, high, find_pc, find_result,
                   groups_frame>>

\* else if (cmp > 0) high = mid - 1;
FindGoLeft ==
    /\ find_pc = "loop"
    /\ low <= high
    /\ Cmp > 0
    /\ high' = Mid - 1
    /\ find_iterations' = find_iterations + 1
    /\ UNCHANGED <<UtilitiesGroups, group_id, low, find_pc, find_result,
                   groups_frame>>

\* else return static_cast<uint8_t>(mid);
FindFound ==
    /\ find_pc = "loop"
    /\ low <= high
    /\ Cmp = 0
    /\ find_result' = Mid % (UInt8Max + 1)
    /\ find_iterations' = find_iterations + 1
    /\ find_pc' = "done"
    /\ UNCHANGED <<UtilitiesGroups, group_id, low, high, groups_frame>>

\* the loop ends with low > high: return UINT8_MAX;
FindNotFound ==
    /\ find_pc = "loop"
    /\ ~(low <= high)
    /\ find_result' = UInt8Max
    /\ find_pc' = "done"
    /\ UNCHANGED <<UtilitiesGroups, group_id, low, high, find_iterations,
                   groups_frame>>

(***************************************************************************)
(* Claims about findUtilitiesGroupIndex, checked under SpecGroups.         *)
(***************************************************************************)
\* the indexes, from 0, of the entries of the table whose id is the argument
Matches ==
    IF UtilitiesGroups.null \/ group_id.null \/ group_id.chars = <<>> THEN {}
    ELSE {i \in 0..(UTILITIES_GROUPS_COUNT - 1) :
            UtilitiesGroups.entries[i + 1] = group_id.chars}

\* what a linear search of the table returns
LinearSearch ==
    IF Matches = {} THEN UInt8Max
    ELSE CHOOSE i \in Matches : \A j \in Matches : i <= j

\* C19: once resetUtilitiesGroups has run the table holds "grid",
\* "group01".."group06", "home" in strictly ascending strcmp order;
\* findUtilitiesGroupIndex returns what a linear search of the table
\* returns, the index of the entry whose id is group_id or UINT8_MAX, and
\* UINT8_MAX when the table is unallocated or group_id is null or empty;
\* and the search terminates: each iteration at least halves the interval
\* low..high, and the loop can always take its next step.
C19_AgreesWithLinearSearch ==
    /\ ~UtilitiesGroups.null =>
          /\ Len(UtilitiesGroups.entries) = UTILITIES_GROUPS_COUNT
          /\ \A i \in 1..(UTILITIES_GROUPS_COUNT - 1) :
                Strcmp(UtilitiesGroups.entries[i],
                       UtilitiesGroups.entries[i + 1]) < 0
    /\ find_pc = "done" =>
          /\ find_result = LinearSearch
          /\ (UtilitiesGroups.null \/ group_id.null \/ group_id.chars = <<>>)
                => find_result = UInt8Max
    /\ find_pc = "loop" =>
          /\ 0 <= low /\ high <= UTILITIES_GROUPS_COUNT - 1
          /\ high - low + 1 <= UTILITIES_GROUPS_COUNT \div 2 ^ find_iterations
          /\ ENABLED (FindGoRight \/ FindGoLeft \/ FindFound \/ FindNotFound)

\* C19 witness: "group07", which differs from an id of the table in its last
\* char only, was not found after the search had narrowed the interval to
\* nothing in four iterations.
C19_Witness ==
    /\ find_pc = "done"
    /\ ~UtilitiesGroups.null
    /\ group_id = CString(Group("7"))
    /\ find_iterations = 4
    /\ low > high
    /\ find_result = UInt8Max

(***************************************************************************)
(* Specifications.                                                         *)
(***************************************************************************)
AdjustIdle ==
    /\ input = <<>>
    /\ decimalSeparator = "."
    /\ adjust_pc = "idle"
    /\ adjust_path = "none"
    /\ adjust_result = <<>>

DecodeIdle ==
    /\ bytes = NullPtr
    /\ decode_pc = "idle"
    /\ code_point = 0
    /\ decode_reads = {}

HardwareIdle ==
    /\ hardware_settings_raw = 0
    /\ hw_written = DefaultSettings
    /\ hw_read = DefaultSettings
    /\ hw_calls = "none"

EntityIdle ==
    /\ entity_id = <<>>
    /\ entity_pc = "idle"
    /\ result = [domain |-> <<>>, id |-> <<>>]

GroupsIdle ==
    /\ UtilitiesGroups = NullTable
    /\ group_id = NullPtr
    /\ low = 0
    /\ high = 0
    /\ find_pc = "idle"
    /\ find_iterations = 0
    /\ find_result = 0

\* the state outside the text utilities
Idle == ProcessInit /\ HardwareIdle /\ EntityIdle /\ GroupsIdle

InListIdle ==
    /\ strToSearch = <<>>
    /\ list = <<>>
    /\ inlist_it = 0
    /\ inlist_pc = "idle"
    /\ inlist_result = FALSE

InitWrap == WrapInit /\ AdjustIdle /\ DecodeIdle /\ InListIdle /\ Idle

NextWrap ==
    \/ WrapTooLongError
    \/ WrapInvalidParams
    \/ WrapAlreadyFormatted
    \/ WrapShortEnough
    \/ WrapEnterLoop
    \/ WrapIteration
    \/ WrapReturn

SpecWrap == InitWrap /\ [][NextWrap]_vars

WrapIdle ==
    /\ text_to_display = <<>>
    /\ line_length_limit = 0
    /\ bytes_per_char = 0
    /\ wrap_pc = "idle"
    /\ wrap_path = "none"
    /\ start = 0
    /\ wrapped_text = <<>>
    /\ wrap_result = <<>>
    /\ wrap_reads = {}
    /\ wrap_slice = <<>>
    /\ wrap_iterations = 0
    /\ wrap_segments = <<>>

InitAdjust == WrapIdle /\ AdjustInit /\ DecodeIdle /\ InListIdle /\ Idle

NextAdjust ==
    \/ AdjustSeparatorIsDot
    \/ AdjustNoNumericPart
    \/ AdjustRewrite
    \/ AdjustNotANumber

SpecAdjust == InitAdjust /\ [][NextAdjust]_vars

InitDecode == WrapIdle /\ AdjustIdle /\ DecodeInit /\ InListIdle /\ Idle

NextDecode ==
    \/ DecodeNullOrEmpty
    \/ DecodeOneByte
    \/ DecodeTwoBytes
    \/ DecodeThreeBytes
    \/ DecodeFourBytes
    \/ DecodeOtherwise

SpecDecode == InitDecode /\ [][NextDecode]_vars

InitInList == WrapIdle /\ AdjustIdle /\ DecodeIdle /\ InListInit /\ Idle

NextInList ==
    \/ InListFound
    \/ InListAdvance
    \/ InListNotFound

SpecInList == InitInList /\ [][NextInList]_vars

InitHardware ==
    WrapIdle /\ AdjustIdle /\ DecodeIdle /\ InListIdle /\ ProcessInit
        /\ HardwareInit /\ EntityIdle /\ GroupsIdle

TextIdle == WrapIdle /\ AdjustIdle /\ DecodeIdle /\ InListIdle

InitEntity ==
    TextIdle /\ ProcessInit /\ HardwareIdle /\ EntityInit /\ GroupsIdle

NextEntity ==
    \/ ExtractDomainAndId
    \/ ExtractInvalid

SpecEntity == InitEntity /\ [][NextEntity]_vars

InitGroups ==
    TextIdle /\ ProcessInit /\ HardwareIdle /\ EntityIdle /\ GroupsInit

NextGroups ==
    \/ resetUtilitiesGroups
    \/ FindNoTable
    \/ FindNullOrEmpty
    \/ FindEnterLoop
    \/ FindGoRight
    \/ FindGoLeft
    \/ FindFound
    \/ FindNotFound

SpecGroups == InitGroups /\ [][NextGroups]_vars

NextHardware ==
    \/ get_hardware_settings
    \/ set_hardware_settings

SpecHardware == InitHardware /\ [][NextHardware]_vars

\* wrapText called on its own result
NextRewrap ==
    \/ WrapTooLongError
    \/ WrapInvalidParams
    \/ WrapAlreadyFormatted
    \/ WrapShortEnough
    \/ WrapEnterLoop
    \/ WrapIteration
    \/ WrapReturn
    \/ WrapCallOnResult

SpecRewrap == InitWrap /\ [][NextRewrap]_vars

\* adjustDecimalSeparator called repeatedly in a process that may change its
\* numeric locale
NextProcess ==
    \/ AdjustSeparatorIsDot
    \/ AdjustNoNumericPart
    \/ AdjustRewrite
    \/ AdjustNotANumber
    \/ SetLocale
    \/ AdjustCallAgain

SpecProcess == InitAdjust /\ [][NextProcess]_vars

InitReadjust ==
    WrapIdle /\ AdjustInit /\ DecodeIdle /\ InListIdle /\ ProcessStarted
        /\ HardwareIdle /\ EntityIdle /\ GroupsIdle

NextReadjust ==
    \/ AdjustSeparatorIsDot
    \/ AdjustNoNumericPart
    \/ AdjustRewrite
    \/ AdjustNotANumber
    \/ AdjustCallOnResult

SpecReadjust == InitReadjust /\ [][NextReadjust]_vars

====
